---- MODULE Spec2Model ----
(***************************************************************************)
(* Rooftop rainwater-harvesting assessment engine                          *)
(* (Backend/app/routers/assessment_api.py): runoff calculation, five-factor *)
(* feasibility scoring, structure recommendation, costing and phasing.     *)
(*                                                                         *)
(* Numbers.  The source computes in binary floating point.  The model      *)
(* computes the same expressions exactly, in scaled integers (the scale is *)
(* named in each definition), and models round(x, n) as round-half-even on *)
(* the exact value.  Products that exceed 32 bits are formed by MulDivQR.  *)
(***************************************************************************)
EXTENDS Integers, Sequences, FiniteSets, TLC

\* ------------------------------------------------------------------ bounds
\* Longest monthly rainfall series drawn as an input.
MaxMonths == 3

\* ------------------------------------------------------------ arithmetic
Abs(x) == IF x < 0 THEN -x ELSE x

Min2(a, b) == IF a <= b THEN a ELSE b

Max2(a, b) == IF a >= b THEN a ELSE b

\* round(n / d) to the nearest integer, ties to the even one (d > 0).
RoundHalfEven(n, d) ==
  LET q == n \div d
      r == n % d
  IN  IF 2 * r < d THEN q
      ELSE IF 2 * r > d THEN q + 1
      ELSE IF q % 2 = 0 THEN q ELSE q + 1

\* One doubling step of MulDivQR: h = <<quotient, remainder>> of k*p by q.
MulDivStep(h, bit, p, q) ==
  LET r2 == 2 * h[2] + bit * (p % q)
  IN  <<2 * h[1] + bit * (p \div q) + (r2 \div q), r2 % q>>

\* <<floor(m*p / q), (m*p) % q>> for m >= 0, p >= 0, 0 < q < 2^31 / 3,
\* without forming m*p.
RECURSIVE MulDivQR(_, _, _)
MulDivQR(m, p, q) ==
  IF m = 0 THEN <<0, 0>>
  ELSE MulDivStep(MulDivQR(m \div 2, p, q), m % 2, p, q)

\* Round-half-even of (h[1]*q + h[2]) / (k*q), h a result of MulDivQR(_, _, q).
RoundQR(h, q, k) ==
  LET q2 == h[1] \div k
      t  == k - 2 * (h[1] % k)
      up == t < 0 \/ (t = 0 /\ h[2] > 0) \/ (t = 1 /\ 2 * h[2] > q)
      tie == (t = 0 /\ h[2] = 0) \/ (t = 1 /\ 2 * h[2] = q)
  IN  IF up THEN q2 + 1
      ELSE IF tie THEN (IF q2 % 2 = 0 THEN q2 ELSE q2 + 1)
      ELSE q2

\* round(m * p / (k*q)) for any integer m (round-half-even is symmetric).
MulDivRound(m, p, q, k) ==
  IF m < 0 THEN -RoundQR(MulDivQR(-m, p, q), q, k)
  ELSE RoundQR(MulDivQR(m, p, q), q, k)

RECURSIVE SumSeq(_)
SumSeq(s) == IF s = <<>> THEN 0 ELSE Head(s) + SumSeq(Tail(s))

RECURSIVE MaxSeq(_)
MaxSeq(s) == IF Len(s) = 1 THEN s[1] ELSE Max2(Head(s), MaxSeq(Tail(s)))

RECURSIVE MinSeq(_)
MinSeq(s) == IF Len(s) = 1 THEN s[1] ELSE Min2(Head(s), MinSeq(Tail(s)))

\* dict.get(k, default) on a record standing for a Python dict.
Get(d, k, default) == IF k \in DOMAIN d THEN d[k] ELSE default

\* The empty dict.
EmptyDict == [k \in {} |-> 0]

\* --------------------------------------------------------------- runoff
\* get_roof_runoff_coefficient: coefficient, efficiency in 1/100,
\* first_flush_liters in 1/10 litre per m2; unknown material -> "other".
roof_coefficients ==
  [concrete |-> [coefficient |-> 85, efficiency |-> 80, first_flush_liters |-> 20, quality |-> "good"],
   tile     |-> [coefficient |-> 80, efficiency |-> 75, first_flush_liters |-> 25, quality |-> "good"],
   metal    |-> [coefficient |-> 90, efficiency |-> 85, first_flush_liters |-> 15, quality |-> "excellent"],
   asbestos |-> [coefficient |-> 85, efficiency |-> 70, first_flush_liters |-> 30, quality |-> "poor"],
   other    |-> [coefficient |-> 75, efficiency |-> 65, first_flush_liters |-> 30, quality |-> "variable"]]

get_roof_runoff_coefficient(roof_type) ==
  Get(roof_coefficients, roof_type, roof_coefficients["other"])

\* 0.092903 m2 per sq ft, in 1/1000000.
SqftToSqmE6 == 92903

\* Divisor of area_sqft * rain_mm * SqftToSqmE6 * (coefficient*efficiency/25)
\* giving litres: 10^10 / 25.
RunoffDiv == 400000000

\* Divisor of area_sqft * rain_mm * SqftToSqmE6 * coefficient giving litres.
GrossDiv == 100000000

\* Variant of RunoffLiters that takes a first-flush loss proportional to the
\* roof area off the runoff, without a floor at zero.
RunoffLitersLessFirstFlush(roof_area_sqft, rain_mm, roof_coeffs, k) ==
  MulDivRound(roof_area_sqft * rain_mm,
              SqftToSqmE6 * ((roof_coeffs.coefficient * roof_coeffs.efficiency) \div 25),
              RunoffDiv, k)
  - roof_area_sqft * roof_coeffs.first_flush_liters

\* roof_area_sqm * rain * coefficient * efficiency, rounded to a litre after
\* division by k (k = 1: the runoff itself; 12: a monthly average; 6: 2/12).
RunoffLiters(roof_area_sqft, rain_mm, roof_coeffs, k) ==
  MulDivRound(roof_area_sqft * rain_mm,
              SqftToSqmE6 * ((roof_coeffs.coefficient * roof_coeffs.efficiency) \div 25),
              RunoffDiv, k)

\* annual_runoff_liters / efficiency = roof_area_sqm * rain * coefficient.
GrossLiters(roof_area_sqft, rain_mm, roof_coeffs) ==
  MulDivRound(roof_area_sqft * rain_mm, SqftToSqmE6 * roof_coeffs.coefficient, GrossDiv, 1)

\* One monthly_breakdown entry.
MonthlyRunoffEntry(roof_area_sqft, month_data, roof_coeffs) ==
  LET monthly_rain == Get(month_data, "monthly_rain_mm", 0)
  IN  [rainfall_mm |-> monthly_rain,
       runoff_liters |-> RunoffLiters(roof_area_sqft, monthly_rain, roof_coeffs, 1)]

\* calculate_runoff_generation.  Litres are whole numbers (round(x, 0));
\* area_sqm is in 1/100 m2, daily_average_collection_liters in 1/10 litre.
calculate_runoff_generation(roof_area_sqft, annual_rainfall_mm, monthly_rainfall, roof_type) ==
  LET roof_coeffs == get_roof_runoff_coefficient(roof_type)
  IN  [roof_details |->
         [area_sqft |-> roof_area_sqft,
          area_sqm |-> RoundHalfEven(roof_area_sqft * SqftToSqmE6, 10000),
          material |-> roof_type,
          runoff_coefficient |-> roof_coeffs.coefficient,
          collection_efficiency |-> roof_coeffs.efficiency,
          quality_rating |-> roof_coeffs.quality],
       runoff_calculations |->
         [annual_rainfall_mm |-> annual_rainfall_mm,
          gross_annual_runoff_liters |-> GrossLiters(roof_area_sqft, annual_rainfall_mm, roof_coeffs),
          net_annual_collectible_liters |-> RunoffLiters(roof_area_sqft, annual_rainfall_mm, roof_coeffs, 1),
          average_monthly_collectible_liters |-> RunoffLiters(roof_area_sqft, annual_rainfall_mm, roof_coeffs, 12)],
       monthly_breakdown |->
         [i \in 1..Len(monthly_rainfall) |->
            MonthlyRunoffEntry(roof_area_sqft, monthly_rainfall[i], roof_coeffs)],
       system_recommendations |->
         [first_flush_diverter_liters |-> RoundHalfEven(roof_area_sqft * SqftToSqmE6, 1000000),
          recommended_storage_tank_liters |-> RunoffLiters(roof_area_sqft, annual_rainfall_mm, roof_coeffs, 6),
          daily_average_collection_liters |-> RunoffLiters(roof_area_sqft, 10 * annual_rainfall_mm, roof_coeffs, 365)]]

\* ------------------------------------------------------ Python values
\* A loosely typed signal value: None, a number, a (non-empty, non-numeric)
\* string, a list, or a dict.
PyNone == [t |-> "none"]

PyNum(n) == [t |-> "num", n |-> n]

PyStr == [t |-> "str"]

PyList(xs) == [t |-> "list", xs |-> xs]

PyDict(d) == [t |-> "dict", d |-> d]

\* bool(v).
Truthy(v) ==
  CASE v.t = "none" -> FALSE
    [] v.t = "num"  -> v.n # 0
    [] v.t = "str"  -> TRUE
    [] v.t = "list" -> Len(v.xs) > 0
    [] v.t = "dict" -> DOMAIN v.d # {}

\* a or b.
PyOr(a, b) == IF Truthy(a) THEN a ELSE b

\* v.get(k, default) on a value that must be a dict: on anything else the
\* attribute lookup raises, which callers test with v.t = "dict" first.
PyGet(v, k, default) == Get(v.d, k, default)

\* ---------------------------------------------------------- feasibility
\* 1. rainfall band by annual total.
RainfallBand(annual_rainfall_mm) ==
  IF annual_rainfall_mm >= 1500 THEN 100
  ELSE IF annual_rainfall_mm >= 1000 THEN 80
  ELSE IF annual_rainfall_mm >= 600 THEN 60
  ELSE IF annual_rainfall_mm >= 400 THEN 30
  ELSE 10

\* The value one element of monthly_rainfall contributes to monthly_amounts
\* (a one-element sequence), or nothing when the element is skipped.
MonthAmount(month) ==
  IF month.t = "dict"
  THEN <<PyOr(PyGet(month, "monthly_rain_mm", PyNum(0)),
              PyOr(PyGet(month, "rainfall_mm", PyNum(0)),
                   PyOr(PyGet(month, "rain_mm", PyNum(0)), PyNum(0))))>>
  ELSE IF month.t = "num" THEN <<month>>
  ELSE <<>>

RECURSIVE MonthlyAmounts(_)
MonthlyAmounts(xs) ==
  IF xs = <<>> THEN <<>> ELSE MonthAmount(Head(xs)) \o MonthlyAmounts(Tail(xs))

\* Variant of DistributionBonus whose cv thresholds are exclusive.
DistributionBonusExclusive(xs) ==
  LET n == Len(xs)
      S == SumSeq(xs)
      Q == SumSeq([i \in 1..n |-> xs[i] * xs[i]])
      D == n * Q - S * S
  IN  IF 4 * D < S * S THEN 15
      ELSE IF 100 * D < 64 * S * S THEN 10
      ELSE IF 100 * D < 144 * S * S THEN 5
      ELSE 0

\* Distribution bonus from the coefficient of variation cv = std_dev / avg of
\* the amounts xs (numbers, avg > 0).  With n = len, S = sum, Q = sum of
\* squares: cv^2 = (n*Q - S^2) / S^2, so cv <= c iff (n*Q - S^2) <= c^2 * S^2.
DistributionBonus(xs) ==
  LET n == Len(xs)
      S == SumSeq(xs)
      Q == SumSeq([i \in 1..n |-> xs[i] * xs[i]])
      D == n * Q - S * S
  IN  IF 4 * D <= S * S THEN 15
      ELSE IF 100 * D <= 64 * S * S THEN 10
      ELSE IF 100 * D <= 144 * S * S THEN 5
      ELSE 0

\* Variant of BandWithBonus without the cap at 100.
BandWithBonusUncapped(band, bonus) == band + bonus

\* rainfall_score = min(100, rainfall_score + distribution_bonus).
BandWithBonus(band, bonus) == Min2(100, band + bonus)

\* Rainfall adequacy: [raised, score].  max()/sum() over monthly_amounts
\* raise TypeError as soon as one amount is not a number.
RainfallScore(annual_rainfall_mm, monthly_rainfall) ==
  LET monthly == IF monthly_rainfall.t = "list" THEN monthly_rainfall.xs ELSE <<>>
      amounts == MonthlyAmounts(monthly)
      nums    == [i \in 1..Len(amounts) |-> amounts[i].n]
      band    == RainfallBand(annual_rainfall_mm)
  IN  IF amounts = <<>> THEN [raised |-> FALSE, score |-> band]
      ELSE IF \E i \in 1..Len(amounts) : amounts[i].t # "num"
      THEN [raised |-> TRUE, score |-> 0]
      ELSE IF SumSeq(nums) > 0
      THEN [raised |-> FALSE, score |-> BandWithBonus(band, DistributionBonus(nums))]
      ELSE [raised |-> FALSE, score |-> band]

\* 2. soil suitability: [raised, score].
SoilScore(soil_data) ==
  LET soil == IF soil_data.t = "dict" THEN soil_data ELSE PyDict(EmptyDict)
      soil_suitability_score == PyGet(soil, "suitability_score", PyNum(5))
  IN  IF Truthy(soil) /\ ~Truthy(PyGet(soil, "error", PyNone))
      THEN IF soil_suitability_score.t = "num"
           THEN [raised |-> FALSE, score |-> soil_suitability_score.n * 10]
           ELSE [raised |-> TRUE, score |-> 0]
      ELSE [raised |-> FALSE, score |-> 50]

\* 3. groundwater: distance factor in 1/10.
DistanceFactor(station_distance) ==
  IF station_distance <= 5 THEN 10
  ELSE IF station_distance <= 15 THEN 9
  ELSE IF station_distance <= 30 THEN 8
  ELSE 7

StationDistanceLabel(station_distance) ==
  IF station_distance <= 5 THEN "very_close"
  ELSE IF station_distance <= 15 THEN "close"
  ELSE IF station_distance <= 30 THEN "moderate"
  ELSE "far"

DepthScore(avg_depth) ==
  IF avg_depth <= 5 THEN 90
  ELSE IF avg_depth <= 15 THEN 80
  ELSE IF avg_depth <= 30 THEN 100
  ELSE 70

VariationBonus(variation) ==
  IF variation <= 2 THEN 10 ELSE IF variation <= 5 THEN 5 ELSE 0

\* Depth part of the groundwater score from annual_summary (a dict):
\* [raised, has, depth_score]; has = FALSE leaves the default score.
DepthPart(annual_summary) ==
  LET avg_depth == PyGet(annual_summary, "average_depth_mbgl", PyNone)
      max_depth == PyGet(annual_summary, "max_depth_mbgl", PyNone)
      min_depth == PyGet(annual_summary, "min_depth_mbgl", PyNone)
  IN  IF ~Truthy(avg_depth) THEN [raised |-> FALSE, has |-> FALSE, depth_score |-> 0]
      ELSE IF avg_depth.t # "num" THEN [raised |-> TRUE, has |-> FALSE, depth_score |-> 0]
      ELSE IF Truthy(max_depth) /\ Truthy(min_depth)
      THEN IF max_depth.t = "num" /\ min_depth.t = "num"
           THEN [raised |-> FALSE, has |-> TRUE,
                 depth_score |-> Min2(100, DepthScore(avg_depth.n)
                                           + VariationBonus(max_depth.n - min_depth.n))]
           ELSE [raised |-> TRUE, has |-> FALSE, depth_score |-> 0]
      ELSE [raised |-> FALSE, has |-> TRUE, depth_score |-> DepthScore(avg_depth.n)]

\* Groundwater conditions: [raised, score10 (1/10 point), station_distance].
GroundwaterScore(groundwater_data) ==
  LET gw == IF groundwater_data.t = "dict" THEN groundwater_data ELSE PyDict(EmptyDict)
      nearest_station == PyGet(gw, "nearest_station", PyDict(EmptyDict))
      gw_analysis == PyGet(gw, "groundwater_analysis", PyDict(EmptyDict))
      dflt == [raised |-> FALSE, score10 |-> 600, station_distance |-> "far"]
      fail == [raised |-> TRUE, score10 |-> 0, station_distance |-> "far"]
  IN  IF ~(Truthy(gw) /\ ~Truthy(PyGet(gw, "error", PyNone))) THEN dflt
      ELSE IF nearest_station.t # "dict" THEN fail
      ELSE LET station_distance == PyGet(nearest_station, "distance_km", PyNum(999))
           IN  IF station_distance.t # "num" THEN fail
               ELSE LET label == StationDistanceLabel(station_distance.n)
                        keep == [dflt EXCEPT !.station_distance = label]
                    IN  IF ~Truthy(gw_analysis) THEN keep
                        ELSE IF gw_analysis.t # "dict" THEN fail
                        ELSE LET annual_summary == PyGet(gw_analysis, "annual_summary", PyDict(EmptyDict))
                             IN  IF ~Truthy(annual_summary) THEN keep
                                 ELSE IF annual_summary.t # "dict" THEN fail
                                 ELSE LET dp == DepthPart(annual_summary)
                                      IN  IF dp.raised THEN fail
                                          ELSE IF ~dp.has THEN keep
                                          ELSE [keep EXCEPT !.score10 =
                                                  dp.depth_score * DistanceFactor(station_distance.n)]

\* 4. technical viability.
AreaScore(roof_area_sqft) ==
  IF roof_area_sqft >= 1000 THEN 100
  ELSE IF roof_area_sqft >= 600 THEN 80
  ELSE IF roof_area_sqft >= 300 THEN 60
  ELSE IF roof_area_sqft >= 150 THEN 40
  ELSE 20

\* annual_demand: dwellers * 135 * 365 litres, or 100000 without dwellers.
AnnualDemand(dwellers) == IF dwellers > 0 THEN dwellers * 135 * 365 ELSE 100000

\* floor(100 * potential_collection), potential_collection =
\* roof_area_sqm * annual_rainfall_mm * coefficient * efficiency, when that is
\* positive; 0 or -1 (only its sign is used) otherwise.
PotentialCollection100(roof_area_sqft, annual_rainfall_mm, roof_coeffs) ==
  LET m == roof_area_sqft * annual_rainfall_mm
  IN  IF m > 0
      THEN MulDivQR(100 * m,
                    SqftToSqmE6 * ((roof_coeffs.coefficient * roof_coeffs.efficiency) \div 25),
                    RunoffDiv)[1]
      ELSE IF m = 0 THEN 0 ELSE -1

\* demand_fulfillment = potential_collection / annual_demand * 100 >= t
\* iff floor(100 * potential_collection) >= t * annual_demand.
DemandScore(pc100, annual_demand) ==
  IF pc100 >= 80 * annual_demand THEN 100
  ELSE IF pc100 >= 50 * annual_demand THEN 80
  ELSE IF pc100 >= 25 * annual_demand THEN 60
  ELSE IF pc100 >= 10 * annual_demand THEN 40
  ELSE 20

\* technical_score in 1/10 point:
\* area_score*0.4 + collection_efficiency*100*0.3 + demand_score*0.3.
TechnicalScore10(roof_area_sqft, dwellers, annual_rainfall_mm, roof_coeffs) ==
  4 * AreaScore(roof_area_sqft)
  + 3 * roof_coeffs.efficiency
  + 3 * DemandScore(PotentialCollection100(roof_area_sqft, annual_rainfall_mm, roof_coeffs),
                    AnnualDemand(dwellers))

\* 5. economic viability.  Base score in 1/1000 point:
\* min(100, 50 + min(area/1000, 2)*15 + min(rain/1000, 2)*20).
EconomicBaseE3(roof_area_sqft, annual_rainfall_mm) ==
  Min2(100000, 50000 + Min2(roof_area_sqft, 2000) * 15 + Min2(annual_rainfall_mm, 2000) * 20)

\* payback_years <= n, with payback_years = estimated_cost / annual_savings,
\* estimated_cost = potential_collection/365*40 and annual_savings =
\* potential_collection*0.03 (potential_collection > 0 cancels).
PaybackWithin(n) == 40 * 100 <= n * 3 * 365

PaybackScore ==
  IF PaybackWithin(3) THEN 100
  ELSE IF PaybackWithin(5) THEN 80
  ELSE IF PaybackWithin(8) THEN 60
  ELSE IF PaybackWithin(12) THEN 40
  ELSE 20

\* payback_category; "unfavorable" without potential collection.
PaybackCategory(pc100) ==
  IF pc100 <= 0 THEN "unfavorable"
  ELSE IF PaybackWithin(3) THEN "excellent"
  ELSE IF PaybackWithin(5) THEN "good"
  ELSE IF PaybackWithin(8) THEN "moderate"
  ELSE IF PaybackWithin(12) THEN "poor"
  ELSE "unfavorable"

\* Variant of EconomicScoreE4 that never blends the payback score in.
EconomicScoreE4BaseOnly(roof_area_sqft, annual_rainfall_mm, pc100) ==
  10 * EconomicBaseE3(roof_area_sqft, annual_rainfall_mm)

\* economic_score in 1/10000 point: base*0.6 + payback_score*0.4 when
\* potential_collection > 0, the base alone otherwise.  (The reported score
\* is this rounded to 1/10 point; on an exact tie the float of the code may
\* round either way, here it rounds half to even.)
EconomicScoreE4(roof_area_sqft, annual_rainfall_mm, pc100) ==
  IF pc100 > 0
  THEN 6 * EconomicBaseE3(roof_area_sqft, annual_rainfall_mm) + 4000 * PaybackScore
  ELSE 10 * EconomicBaseE3(roof_area_sqft, annual_rainfall_mm)

\* Variant of Rating whose lower bounds are exclusive.
RatingExclusive(total100) ==
  IF total100 > 8500 THEN "Excellent"
  ELSE IF total100 > 7000 THEN "Good"
  ELSE IF total100 > 5500 THEN "Moderate"
  ELSE IF total100 > 4000 THEN "Poor"
  ELSE "Unfeasible"

\* Overall rating from total_weighted_score (1/100 point, unrounded sum of the
\* five weighted_scores).
Rating(total100) ==
  IF total100 >= 8500 THEN "Excellent"
  ELSE IF total100 >= 7000 THEN "Good"
  ELSE IF total100 >= 5500 THEN "Moderate"
  ELSE IF total100 >= 4000 THEN "Poor"
  ELSE "Unfeasible"

Priority(rating) ==
  CASE rating = "Excellent" -> "high"
    [] rating = "Good" -> "medium"
    [] rating = "Moderate" -> "medium"
    [] rating = "Poor" -> "low"
    [] OTHER -> "none"

Recommendation(rating) ==
  CASE rating = "Excellent" -> "Highly recommended for implementation"
    [] rating = "Good" -> "Recommended with standard implementation"
    [] rating = "Moderate" -> "Feasible with optimized design and careful planning"
    [] rating = "Poor" -> "Not recommended unless site conditions improve"
    [] OTHER -> "Not suitable for rainwater harvesting"

\* Variant of ConfidenceLevel that is one factor stricter.
ConfidenceLevelStricter(n_limiting) ==
  IF n_limiting < 1 THEN "high" ELSE IF n_limiting < 2 THEN "medium" ELSE "low"

ConfidenceLevel(n_limiting) ==
  IF n_limiting <= 1 THEN "high" ELSE IF n_limiting <= 2 THEN "medium" ELSE "low"

FactorNames ==
  {"rainfall_adequacy", "soil_suitability", "groundwater_conditions",
   "technical_viability", "economic_viability"}

\* Variant of TotalScore10 that rounds the total to a whole point.
TotalScoreWhole(total100) == 10 * RoundHalfEven(total100, 100)

\* total_score = round(total_weighted_score, 1), in 1/10 point.
TotalScore10(total100) == RoundHalfEven(total100, 10)

\* The report for a run in which nothing raised.  score10 is the reported
\* score in 1/10 point, weighted100 the reported weighted_score in 1/100.
FeasibilityReport(rain, soil, gw10, station_distance, tech10, econE4, payback_category) ==
  LET factor_scores ==
        [rainfall_adequacy |->
           [score10 |-> 10 * rain, weight |-> 25, weighted100 |-> 25 * rain],
         soil_suitability |->
           [score10 |-> 10 * soil, weight |-> 20, weighted100 |-> 20 * soil],
         groundwater_conditions |->
           [score10 |-> gw10, weight |-> 20,
            weighted100 |-> 10 * RoundHalfEven(2 * gw10, 10)],
         technical_viability |->
           [score10 |-> tech10, weight |-> 20,
            weighted100 |-> 10 * RoundHalfEven(2 * tech10, 10)],
         economic_viability |->
           [score10 |-> RoundHalfEven(econE4, 1000), weight |-> 15,
            weighted100 |-> 10 * RoundHalfEven(15 * econE4, 100000)]]
      total100 == factor_scores.rainfall_adequacy.weighted100
                  + factor_scores.soil_suitability.weighted100
                  + factor_scores.groundwater_conditions.weighted100
                  + factor_scores.technical_viability.weighted100
                  + factor_scores.economic_viability.weighted100
      limiting_factors == {f \in FactorNames : factor_scores[f].score10 < 500}
      rating == Rating(total100)
  IN  [raised |-> FALSE,
       overall_feasibility |->
         [total_score10 |-> TotalScore10(total100),
          rating |-> rating,
          recommendation |-> Recommendation(rating),
          priority |-> Priority(rating),
          confidence_level |-> ConfidenceLevel(Cardinality(limiting_factors))],
       factor_scores |-> factor_scores,
       detailed_analysis |->
         [groundwater_analysis |-> [station_distance |-> station_distance],
          economic_analysis |-> [payback_category |-> payback_category]],
       limiting_factors |-> limiting_factors,
       implementation_strategy |->
         [primary_focus |-> IF factor_scores.soil_suitability.score10 >= 700
                            THEN "recharge" ELSE "storage",
          system_complexity |-> IF total100 >= 8000 THEN "simple"
                                ELSE IF total100 >= 6000 THEN "moderate" ELSE "complex",
          monitoring_requirements |-> IF total100 >= 7000 THEN "standard" ELSE "enhanced"]]

\* The outcome of a call in which an exception escaped.
Raised == [raised |-> TRUE]

\* calculate_detailed_feasibility.
calculate_detailed_feasibility(roof_area_sqft, dwellers, annual_rainfall_mm, monthly_rainfall, soil_data, groundwater_data, roof_type) ==
  LET rainfall == RainfallScore(annual_rainfall_mm, monthly_rainfall)
      soil == SoilScore(soil_data)
      groundwater == GroundwaterScore(groundwater_data)
      roof_coeffs == get_roof_runoff_coefficient(roof_type)
      pc100 == PotentialCollection100(roof_area_sqft, annual_rainfall_mm, roof_coeffs)
  IN  IF rainfall.raised \/ soil.raised \/ groundwater.raised THEN Raised
      ELSE FeasibilityReport(
             rainfall.score, soil.score, groundwater.score10, groundwater.station_distance,
             TechnicalScore10(roof_area_sqft, dwellers, annual_rainfall_mm, roof_coeffs),
             EconomicScoreE4(roof_area_sqft, annual_rainfall_mm, pc100),
             PaybackCategory(pc100))

\* ------------------------------------------------------------- costing
\* An amount of money: r whole rupees plus f/100000 rupee, 0 <= f < 100000.
Money(r, f) == [r |-> r, f |-> f]

MoneyAdd(a, b) ==
  Money(a.r + b.r + ((a.f + b.f) \div 100000), (a.f + b.f) % 100000)

\* The sum of the estimated_cost of the structures xs, added left to right
\* from 0.
RECURSIVE CostSum(_)
CostSum(xs) ==
  IF xs = <<>> THEN Money(0, 0)
  ELSE MoneyAdd(CostSum(SubSeq(xs, 1, Len(xs) - 1)), xs[Len(xs)].estimated_cost)

\* calculate_tank_cost: base rate per litre by material and quality tier.
base_rates ==
  [plastic    |-> [basic |-> 10, standard |-> 14, premium |-> 20],
   concrete   |-> [basic |-> 45, standard |-> 65, premium |-> 85],
   fiberglass |-> [basic |-> 35, standard |-> 50, premium |-> 75]]

\* Installation multiplier in 1/100.
installation_multiplier == [plastic |-> 120, concrete |-> 140, fiberglass |-> 130]

\* Volume discount in 1/100, capacity in 1/10 litre.
VolumeDiscount(capacity10) ==
  IF capacity10 > 100000 THEN 85 ELSE IF capacity10 > 50000 THEN 90 ELSE 100

\* calculate_tank_cost, capacity in 1/10 litre; whole rupees (round(x, 0)).
calculate_tank_cost(capacity10, material, quality) ==
  LET rate == Get(Get(base_rates, material, base_rates["plastic"]), quality, 15)
  IN  MulDivRound(capacity10,
                  rate * VolumeDiscount(capacity10) * Get(installation_multiplier, material, 125),
                  100000, 1)

\* calculate_recharge_structure_cost: the dimension argument is not used.
recharge_costs ==
  [pit    |-> [base_cost |-> 15000, per_cubic_meter |-> 2500, typical_volume |-> 12],
   well   |-> [base_cost |-> 25000, per_meter_depth |-> 1500, typical_depth |-> 12],
   trench |-> [base_cost |-> 8000, per_square_meter |-> 800, typical_area |-> 15]]

calculate_recharge_structure_cost(structure_type, area_or_depth) ==
  LET structure_info == Get(recharge_costs, structure_type, recharge_costs["pit"])
  IN  IF structure_type = "well"
      THEN structure_info.base_cost
           + structure_info.typical_depth * structure_info.per_meter_depth
      ELSE LET volume_or_area == IF structure_type = "pit"
                                 THEN structure_info.typical_volume
                                 ELSE structure_info.typical_area
           IN  structure_info.base_cost
               + volume_or_area * Get(structure_info, "per_cubic_meter",
                                      Get(structure_info, "per_square_meter", 1000))

\* int(x) of a capacity in 1/10 litre: truncation toward zero.
IntLiters(capacity10) ==
  IF capacity10 >= 0 THEN capacity10 \div 10 ELSE -((-capacity10) \div 10)

\* One structure option.  cost_breakdown lists the shares of estimated_cost
\* in 1/100, in the order the source lists them.
Structure(type, name, estimated_cost, cost_breakdown) ==
  [type |-> type, name |-> name, estimated_cost |-> estimated_cost,
   cost_breakdown |-> cost_breakdown]

\* A structure option that also states capacity_liters (tanks, diverter).
StructureWithCapacity(type, name, capacity_liters, estimated_cost, cost_breakdown) ==
  [type |-> type, name |-> name, capacity_liters |-> capacity_liters,
   estimated_cost |-> estimated_cost, cost_breakdown |-> cost_breakdown]

\* max([month.get("runoff_liters", 0) for month in monthly_rainfall] + [0]).
RECURSIVE MaxMonthlyRunoff(_)
MaxMonthlyRunoff(monthly_rainfall) ==
  IF monthly_rainfall = <<>> THEN 0
  ELSE Max2(Get(Head(monthly_rainfall), "runoff_liters", 0),
            MaxMonthlyRunoff(Tail(monthly_rainfall)))

\* Tank sizes in 1/10 litre.
BasicSize10(daily_demand, max_monthly_runoff) ==
  Min2(daily_demand * 450, max_monthly_runoff * 15)

StandardSize10(daily_demand, max_monthly_runoff) ==
  Min2(daily_demand * 900, max_monthly_runoff * 25)

PremiumSize10(daily_demand, annual_runoff_liters) ==
  Min2(daily_demand * 1500, annual_runoff_liters * 4)

BasicTank(daily_demand, max_monthly_runoff) ==
  StructureWithCapacity("storage_tank", "Basic Rainwater Storage Tank",
            IntLiters(BasicSize10(daily_demand, max_monthly_runoff)),
            Money(calculate_tank_cost(BasicSize10(daily_demand, max_monthly_runoff),
                                      "plastic", "basic"), 0),
            <<70, 20, 10>>)

StandardTank(daily_demand, max_monthly_runoff) ==
  StructureWithCapacity("storage_tank", "Standard Underground Storage Tank",
            IntLiters(StandardSize10(daily_demand, max_monthly_runoff)),
            Money(calculate_tank_cost(StandardSize10(daily_demand, max_monthly_runoff),
                                      "concrete", "standard"), 0),
            <<60, 25, 15>>)

PremiumTank(daily_demand, annual_runoff_liters) ==
  StructureWithCapacity("storage_tank", "Premium Multi-Tank System",
            IntLiters(PremiumSize10(daily_demand, annual_runoff_liters)),
            Money(calculate_tank_cost(PremiumSize10(daily_demand, annual_runoff_liters),
                                      "fiberglass", "premium"), 0),
            <<50, 30, 20>>)

\* calculate_storage_tank_options.
calculate_storage_tank_options(annual_runoff_liters, daily_demand, monthly_rainfall) ==
  LET max_monthly_runoff == MaxMonthlyRunoff(monthly_rainfall)
  IN  <<BasicTank(daily_demand, max_monthly_runoff),
        StandardTank(daily_demand, max_monthly_runoff)>>
      \o (IF annual_runoff_liters > daily_demand * 120
          THEN <<PremiumTank(daily_demand, annual_runoff_liters)>>
          ELSE <<>>)

\* calculate_recharge_structure_options; open space in 1/1000000 m2.
calculate_recharge_structure_options(open_space_e6, soil_permeability, annual_runoff_liters) ==
  (IF open_space_e6 >= 4000000
   THEN <<Structure("recharge_structure", "Percolation/Recharge Pit",
                    Money(calculate_recharge_structure_cost("pit", open_space_e6), 0),
                    <<30, 40, 30>>)>>
   ELSE <<>>)
  \o (IF open_space_e6 >= 1000000 /\ soil_permeability.infiltration > 5
      THEN <<Structure("recharge_structure", "Recharge Well/Bore",
                       Money(calculate_recharge_structure_cost("well", open_space_e6), 0),
                       <<40, 35, 25>>)>>
      ELSE <<>>)
  \o (IF open_space_e6 >= 6000000
      THEN <<Structure("recharge_structure", "Recharge Trench System",
                       Money(calculate_recharge_structure_cost("trench", open_space_e6), 0),
                       <<40, 30, 30>>)>>
      ELSE <<>>)

\* Variant of DiverterBreakdown whose shares stop short of the whole.
DiverterBreakdownShort == <<60, 25, 10>>

\* Shares (in 1/100) of diverter_cost in its cost_breakdown: diverter_unit,
\* piping, installation.
DiverterBreakdown == <<60, 25, 15>>

\* diverter_cost = 3000 + roof_area_sqm * 50, for roof_area_sqft >= 0.
DiverterCost(roof_area_sqft) ==
  Money(3000 + ((roof_area_sqft * SqftToSqmE6 * 5) \div 100000),
        (roof_area_sqft * SqftToSqmE6 * 5) % 100000)

\* filter_cost = 8000 + annual_runoff_liters * 0.5.
FilterCost(annual_runoff_liters) ==
  Money(8000 + (annual_runoff_liters \div 2), 50000 * (annual_runoff_liters % 2))

\* calculate_filtration_system_options.
calculate_filtration_system_options(roof_area_sqft, annual_runoff_liters) ==
  <<StructureWithCapacity("filtration_system", "First Flush Diverter System",
                          IF roof_area_sqft >= 0
                          THEN (roof_area_sqft * SqftToSqmE6 * 2) \div 1000000
                          ELSE -((-roof_area_sqft * SqftToSqmE6 * 2) \div 1000000),
                          DiverterCost(roof_area_sqft), DiverterBreakdown)>>
  \o (IF annual_runoff_liters > 10000
      THEN <<Structure("filtration_system", "Multi-stage Water Filter",
                       FilterCost(annual_runoff_liters), <<70, 20, 10>>)>>
      ELSE <<>>)

\* --------------------------------------------------------------- phases
\* "Basic" in name, for the names the option generators produce.
HasBasic(name) == name = "Basic Rainwater Storage Tank"

Names(xs) == [i \in 1..Len(xs) |-> xs[i].name]

InPhase1(structure) == structure.type = "filtration_system" \/ HasBasic(structure.name)

InPhase2(structure) == structure.type = "storage_tank" /\ ~HasBasic(structure.name)

InPhase3(structure) == structure.type = "recharge_structure"

Phase(phase, title, xs, timeline, priority) ==
  [phase |-> phase, title |-> title, structures |-> Names(xs),
   estimated_cost |-> CostSum(xs), timeline |-> timeline, priority |-> priority]

\* Phase 2 is filled from primary_structures alone.
Phase2Structures(primary_structures, secondary_structures) ==
  SelectSeq(primary_structures, InPhase2)

\* create_implementation_phases.
create_implementation_phases(primary_structures, secondary_structures, total_cost) ==
  LET phase1 == SelectSeq(primary_structures \o secondary_structures, InPhase1)
      phase2 == Phase2Structures(primary_structures, secondary_structures)
      phase3 == SelectSeq(primary_structures \o secondary_structures, InPhase3)
  IN  <<Phase(1, "Essential Setup", phase1, "2-4 weeks", "High")>>
      \o (IF phase2 # <<>>
          THEN <<Phase(2, "Storage Enhancement", phase2, "4-8 weeks", "Medium")>>
          ELSE <<>>)
      \o (IF phase3 # <<>>
          THEN <<Phase(3, "Groundwater Recharge", phase3, "6-12 weeks", "Long-term")>>
          ELSE <<>>)

\* ------------------------------------------------------- recommendations
permeability_rates ==
  [sandy  |-> [rate |-> "high", infiltration |-> 25, recharge_suitability |-> "excellent"],
   loamy  |-> [rate |-> "medium", infiltration |-> 13, recharge_suitability |-> "good"],
   clayey |-> [rate |-> "low", infiltration |-> 2, recharge_suitability |-> "poor"],
   medium |-> [rate |-> "medium", infiltration |-> 13, recharge_suitability |-> "good"]]

\* Variant of SoilPermeability that falls back to the clayey row.
SoilPermeabilityClayeyDefault(soil_data) ==
  Get(permeability_rates, Get(soil_data, "texture_class", "clayey"),
      permeability_rates["clayey"])

\* soil_permeability: the row of the texture class, the medium row for an
\* absent or unknown one.
SoilPermeability(soil_data) ==
  Get(permeability_rates, Get(soil_data, "texture_class", "medium"),
      permeability_rates["medium"])

\* Variant of Strategy whose thresholds are inclusive.
StrategyInclusive(open_space_e6, soil_permeability) ==
  IF open_space_e6 >= 20000000 /\ soil_permeability.infiltration >= 10 THEN "recharge_focused"
  ELSE IF open_space_e6 >= 10000000 THEN "hybrid"
  ELSE "storage_focused"

\* Strategy from the open space (1/1000000 m2) and the soil's infiltration.
Strategy(open_space_e6, soil_permeability) ==
  IF open_space_e6 > 20000000 /\ soil_permeability.infiltration > 10 THEN "recharge_focused"
  ELSE IF open_space_e6 > 10000000 THEN "hybrid"
  ELSE "storage_focused"

First(xs, n) == SubSeq(xs, 1, Min2(n, Len(xs)))

PrimaryStructures(strategy, storage_options, recharge_options, filtration_options) ==
  IF strategy = "storage_focused" THEN First(storage_options, 2)
  ELSE IF strategy = "recharge_focused" THEN First(recharge_options, 2) \o First(storage_options, 1)
  ELSE First(storage_options, 1) \o First(recharge_options, 1)

SecondaryStructures(strategy, storage_options, recharge_options, filtration_options) ==
  IF strategy = "storage_focused" THEN filtration_options \o First(recharge_options, 1)
  ELSE IF strategy = "recharge_focused" THEN filtration_options
  ELSE filtration_options \o SubSeq(storage_options, 2, Min2(2, Len(storage_options)))

\* Variant of TotalCost that leaves the secondary structures out.
TotalCostPrimaryOnly(primary_structures, secondary_structures) ==
  CostSum(primary_structures)

\* total_cost: the loop over primary_structures + secondary_structures.
TotalCost(primary_structures, secondary_structures) ==
  CostSum(primary_structures \o secondary_structures)

\* Variant of GatedRechargeOptions whose minimum space is inclusive.
GatedRechargeOptionsInclusive(open_space_e6, soil_permeability, annual_runoff_liters) ==
  IF open_space_e6 >= 5000000
  THEN calculate_recharge_structure_options(open_space_e6, soil_permeability,
                                            annual_runoff_liters)
  ELSE <<>>

\* The recommender's recharge options: none unless open_space_sqm > 5.
GatedRechargeOptions(open_space_e6, soil_permeability, annual_runoff_liters) ==
  IF open_space_e6 > 5000000
  THEN calculate_recharge_structure_options(open_space_e6, soil_permeability,
                                            annual_runoff_liters)
  ELSE <<>>

\* The storage, recharge and filtration options the recommender generates;
\* recharge options only with more than 5 m2 of open space.
GeneratedOptions(roof_area_sqft, annual_runoff_liters, soil_data, open_space_sqft, dwellers, monthly_rainfall) ==
  [storage_options |->
     calculate_storage_tank_options(annual_runoff_liters, dwellers * 135, monthly_rainfall),
   recharge_options |->
     GatedRechargeOptions(open_space_sqft * SqftToSqmE6, SoilPermeability(soil_data),
                          annual_runoff_liters),
   filtration_options |->
     calculate_filtration_system_options(roof_area_sqft, annual_runoff_liters)]

\* get_rtrwh_structure_recommendations.  soil_data is a dict; groundwater_data
\* and feasibility_score are not read.
get_rtrwh_structure_recommendations(roof_area_sqft, annual_runoff_liters, soil_data, open_space_sqft, dwellers, monthly_rainfall) ==
  LET open_space_e6 == open_space_sqft * SqftToSqmE6
      soil_permeability == SoilPermeability(soil_data)
      daily_demand == dwellers * 135
      strategy == Strategy(open_space_e6, soil_permeability)
      generated == GeneratedOptions(roof_area_sqft, annual_runoff_liters, soil_data,
                                    open_space_sqft, dwellers, monthly_rainfall)
      storage_options == generated.storage_options
      recharge_options == generated.recharge_options
      filtration_options == generated.filtration_options
      primary == PrimaryStructures(strategy, storage_options, recharge_options,
                                   filtration_options)
      secondary == SecondaryStructures(strategy, storage_options, recharge_options,
                                       filtration_options)
      total_cost == TotalCost(primary, secondary)
  IN  [strategy |-> strategy,
       primary_structures |-> primary,
       secondary_structures |-> secondary,
       total_estimated_cost |-> total_cost,
       implementation_phases |-> create_implementation_phases(primary, secondary, total_cost),
       site_analysis |->
         [roof_area_sqm_e6 |-> roof_area_sqft * SqftToSqmE6,
          open_space_sqm_e6 |-> open_space_e6,
          soil_infiltration_rate |-> soil_permeability.infiltration,
          recharge_suitability |-> soil_permeability.recharge_suitability,
          annual_runoff_potential |-> annual_runoff_liters,
          annual_water_demand |-> daily_demand * 365]]

\* -------------------------------------------------------- the pipeline
\* The hard-coded report create_assessment returns in place of a call of
\* calculate_detailed_feasibility.
SimplifiedFeasibility ==
  [raised |-> FALSE,
   overall_feasibility |->
     [total_score10 |-> 750, rating |-> "Good",
      recommendation |-> "Recommended for implementation with standard monitoring",
      priority |-> "medium", confidence_level |-> "medium"],
   factor_scores |->
     [rainfall_adequacy |-> [score10 |-> 800, weight |-> 25, weighted100 |-> 2000],
      soil_suitability |-> [score10 |-> 700, weight |-> 20, weighted100 |-> 1400],
      groundwater_conditions |-> [score10 |-> 750, weight |-> 20, weighted100 |-> 1500],
      technical_viability |-> [score10 |-> 850, weight |-> 20, weighted100 |-> 1700],
      economic_viability |-> [score10 |-> 650, weight |-> 15, weighted100 |-> 975]],
   limiting_factors |-> {},
   implementation_strategy |->
     [primary_focus |-> "recharge", system_complexity |-> "moderate",
      monitoring_requirements |-> "standard"]]

\* What a part of the response holds when it was not computed (None).
NotComputed == [computed |-> FALSE]

\* str.lower() on the soil classes drawn as inputs.
Lower(soil_class) ==
  CASE soil_class = "Sandy" -> "sandy"
    [] soil_class = "Clayey" -> "clayey"
    [] soil_class = "Loamy" -> "loamy"
    [] OTHER -> soil_class

\* soil_data_for_structures: from soil_info when the soil lookup succeeded,
\* the medium defaults otherwise.
SoilDataForStructures(soil) ==
  IF soil.success
  THEN [texture_class |-> Lower(soil.soil_class)]
  ELSE [texture_class |-> "medium"]

\* create_assessment, from the parsed request (roof_area, roof_type, dwellers)
\* and what the rainfall and soil sources returned.  roof_type "" stands for
\* no roofType.  The roof areas drawn are even, so roof_area * 0.5 is whole.
create_assessment(roof_area, roof_type, dwellers, rainfall_data, soil) ==
  LET annual_rainfall_mm == IF rainfall_data.success
                            THEN rainfall_data.annual_rainfall_mm ELSE 1200
      monthly_rainfall_data == IF rainfall_data.success
                               THEN rainfall_data.monthly_data ELSE <<>>
      has_runoff == roof_area > 0 /\ roof_type # ""
      runoff_analysis ==
        calculate_runoff_generation(roof_area, annual_rainfall_mm,
                                    monthly_rainfall_data, roof_type)
      overall_feasibility_score == SimplifiedFeasibility.overall_feasibility.total_score10
  IN  [runoff_analysis |->
         IF has_runoff THEN [computed |-> TRUE, value |-> runoff_analysis]
         ELSE NotComputed,
       feasibility_assessment |->
         IF has_runoff THEN [computed |-> TRUE, value |-> SimplifiedFeasibility]
         ELSE NotComputed,
       structure_recommendations |->
         IF has_runoff
         THEN [computed |-> TRUE,
               value |-> get_rtrwh_structure_recommendations(
                           roof_area,
                           runoff_analysis.runoff_calculations.net_annual_collectible_liters,
                           SoilDataForStructures(soil),
                           roof_area \div 2,
                           dwellers,
                           monthly_rainfall_data)]
         ELSE NotComputed,
       annual_rainfall_used_mm |-> annual_rainfall_mm]

\* ------------------------------------------------------ the state machine
\* pc is the position of the call under study, args its arguments, ret what
\* it returned, prev the arguments and result of the call before it.
VARIABLES pc, args, ret, prev

vars == <<pc, args, ret, prev>>

NoValue == [computed |-> FALSE]

\* Sequences of at most n elements of S.
SeqUpTo(S, n) == UNION {[1..k -> S] : k \in 0..n}

\* ---------------------------------------------- calculate_runoff_generation
\* Roof areas in sq ft (a negative one, zero, and sizes around the scorer's
\* thresholds), annual rainfall in mm, roof materials (a known one, the
\* best and an unknown one falling back to the default), monthly entries.
RunoffRoofAreas == {-100, 0, 1, 150, 300, 600, 1000, 2500}
RunoffRainfalls == {0, 400, 617, 1200, 2500}
RunoffRoofTypes == {"concrete", "metal", "thatch"}
RunoffMonths == {[monthly_rain_mm |-> 0], [monthly_rain_mm |-> 100],
                 [monthly_rain_mm |-> 300]}

InitRunoff ==
  /\ pc = "called"
  /\ args \in [roof_area_sqft : RunoffRoofAreas,
               annual_rainfall_mm : RunoffRainfalls,
               monthly_rainfall : SeqUpTo(RunoffMonths, MaxMonths),
               roof_type : RunoffRoofTypes]
  /\ ret = NoValue
  /\ prev = NoValue

RunoffOf(a) ==
  calculate_runoff_generation(a.roof_area_sqft, a.annual_rainfall_mm,
                              a.monthly_rainfall, a.roof_type)

\* The call returns its profile.
RunoffCall ==
  /\ pc = "called"
  /\ ret' = RunoffOf(args)
  /\ pc' = "returned"
  /\ UNCHANGED <<args, prev>>

\* The same site is assessed again with a larger roof; the earlier call is
\* kept in prev.
RunoffLargerRoof ==
  /\ pc = "returned"
  /\ prev = NoValue
  /\ \E larger \in RunoffRoofAreas :
       /\ larger > args.roof_area_sqft
       /\ args' = [args EXCEPT !.roof_area_sqft = larger]
       /\ ret' = RunoffOf(args')
       /\ prev' = [computed |-> TRUE, args |-> args, ret |-> ret]
  /\ pc' = "compared"

NextRunoff == RunoffCall \/ RunoffLargerRoof

SpecRunoff == InitRunoff /\ [][NextRunoff]_vars

Net(profile) == profile.runoff_calculations.net_annual_collectible_liters

\* C7: for the same roof material and the same rainfall, a larger roof never
\* yields a smaller net annual collectible volume.
C7_NetMonotoneInArea ==
  pc = "compared" => Net(prev.ret) <= Net(ret)

\* A larger roof was assessed after a smaller positive one and the two
\* volumes differ.
C7_Witness ==
  /\ pc = "compared"
  /\ prev.args.roof_area_sqft > 0
  /\ prev.args.roof_area_sqft < args.roof_area_sqft
  /\ prev.args.roof_type = args.roof_type
  /\ prev.args.annual_rainfall_mm = args.annual_rainfall_mm
  /\ Net(prev.ret) < Net(ret)

\* C9: a roof area at or below zero returns a profile whose volume fields
\* (gross, net, monthly runoff, diverter liters, tank liters) are all zero.
C9_NonPositiveAreaZeroProfile ==
  (pc = "returned" /\ args.roof_area_sqft <= 0) =>
    /\ ret.runoff_calculations.gross_annual_runoff_liters = 0
    /\ ret.runoff_calculations.net_annual_collectible_liters = 0
    /\ \A i \in 1..Len(ret.monthly_breakdown) :
         ret.monthly_breakdown[i].runoff_liters = 0
    /\ ret.system_recommendations.first_flush_diverter_liters = 0
    /\ ret.system_recommendations.recommended_storage_tank_liters = 0

\* C21: every month's collectible volume is its gross runoff minus a
\* first-flush loss of min(5 x first-flush capacity, 10% of gross), so it lies
\* between 90% and 100% of the month's gross runoff and is strictly below it
\* when gross > 0.  The month's gross runoff is read either as
\* area x rain x coefficient x efficiency or as area x rain x coefficient.
C21_MonthlyFirstFlushLoss ==
  (pc = "returned" /\ args.roof_area_sqft > 0) =>
    \A i \in 1..Len(ret.monthly_breakdown) :
      \E gross \in {RunoffLiters(args.roof_area_sqft, ret.monthly_breakdown[i].rainfall_mm,
                                 get_roof_runoff_coefficient(args.roof_type), 1),
                    GrossLiters(args.roof_area_sqft, ret.monthly_breakdown[i].rainfall_mm,
                                get_roof_runoff_coefficient(args.roof_type))} :
        gross > 0 =>
          /\ 10 * ret.monthly_breakdown[i].runoff_liters >= 9 * gross
          /\ ret.monthly_breakdown[i].runoff_liters < gross

\* C22: the gross annual runoff of the profile is roof area in m2 x annual
\* rainfall x runoff coefficient x collection efficiency, to the litre.
C22_GrossIncludesEfficiency ==
  pc = "returned" =>
    ret.runoff_calculations.gross_annual_runoff_liters =
      RunoffLiters(args.roof_area_sqft, args.annual_rainfall_mm,
                   get_roof_runoff_coefficient(args.roof_type), 1)

\* ------------------------------------- get_rtrwh_structure_recommendations
\* Roof areas, net annual runoff (none, below and above the 10000 l filter
\* threshold, a typical and a large one), soils, open space in sq ft (0,
\* 4.6, 5.6, 9.3, 13.9, 20.4 and 27.9 m2: around the 5, 10, 15 and 20 m2
\* thresholds), dwellers and monthly entries with and without runoff_liters.
RecRoofAreas == {0, 1000, 2500}
RecRunoffs == {0, 5000, 10001, 75809, 200000}
RecSoils == {EmptyDict, [texture_class |-> "sandy"], [texture_class |-> "clayey"],
             [texture_class |-> "peat"]}
RecOpenSpaces == {0, 50, 60, 100, 150, 220, 300}
RecDwellers == {0, 1, 4}
RecMonths == {[monthly_rain_mm |-> 100],
              [monthly_rain_mm |-> 100, runoff_liters |-> 6317]}
MaxRecMonths == 2

InitRecommend ==
  /\ pc = "called"
  /\ args \in [roof_area_sqft : RecRoofAreas,
               annual_runoff_liters : RecRunoffs,
               soil_data : RecSoils,
               open_space_sqft : RecOpenSpaces,
               dwellers : RecDwellers,
               monthly_rainfall : SeqUpTo(RecMonths, MaxRecMonths)]
  /\ ret = NoValue
  /\ prev = NoValue

\* The call returns its bundle.
RecommendCall ==
  /\ pc = "called"
  /\ ret' = get_rtrwh_structure_recommendations(
              args.roof_area_sqft, args.annual_runoff_liters, args.soil_data,
              args.open_space_sqft, args.dwellers, args.monthly_rainfall)
  /\ pc' = "returned"
  /\ UNCHANGED <<args, prev>>

NextRecommend == RecommendCall

SpecRecommend == InitRecommend /\ [][NextRecommend]_vars

\* The structures of a bundle, primary first.
Listed(bundle) == bundle.primary_structures \o bundle.secondary_structures

\* The phases of a bundle that list the name.
PhasesListing(bundle, name) ==
  {i \in 1..Len(bundle.implementation_phases) :
     \E j \in 1..Len(bundle.implementation_phases[i].structures) :
       bundle.implementation_phases[i].structures[j] = name}

\* C1: every structure in primary or secondary appears in exactly one
\* implementation phase.
C1_EveryStructureInOnePhase ==
  pc = "returned" =>
    \A i \in 1..Len(Listed(ret)) :
      Cardinality(PhasesListing(ret, Listed(ret)[i].name)) = 1

RECURSIVE SumWhole(_)
SumWhole(xs) == IF xs = <<>> THEN 0 ELSE Head(xs).estimated_cost.r + SumWhole(Tail(xs))

RECURSIVE SumFraction(_)
SumFraction(xs) == IF xs = <<>> THEN 0 ELSE Head(xs).estimated_cost.f + SumFraction(Tail(xs))

\* C2: total_estimated_cost is the exact sum of estimated_cost over the
\* primary and secondary structures.
C2_TotalCostIsSum ==
  pc = "returned" =>
    /\ ret.total_estimated_cost.r =
         SumWhole(Listed(ret)) + SumFraction(Listed(ret)) \div 100000
    /\ ret.total_estimated_cost.f = SumFraction(Listed(ret)) % 100000

\* A bundle with primary and secondary structures of non-zero cost.
C2_Witness ==
  /\ pc = "returned"
  /\ Len(ret.primary_structures) >= 2
  /\ Len(ret.secondary_structures) >= 1
  /\ \A i \in 1..Len(Listed(ret)) : Listed(ret)[i].estimated_cost.r > 0
  /\ ret.total_estimated_cost.f # 0

\* C10: with a roof area of zero the recommender returns empty primary and
\* secondary lists and a plan with no phase or a single empty Phase 1.
C10_ZeroRoofEmptyBundle ==
  (pc = "returned" /\ args.roof_area_sqft = 0) =>
    /\ ret.primary_structures = <<>>
    /\ ret.secondary_structures = <<>>
    /\ \/ ret.implementation_phases = <<>>
       \/ /\ Len(ret.implementation_phases) = 1
          /\ ret.implementation_phases[1].phase = 1
          /\ ret.implementation_phases[1].structures = <<>>

\* ------------------------------------------ calculate_detailed_feasibility
\* groundwater_data with a station at distance_km and an annual summary.
GroundwaterSignal(distance_km, average_depth, min_depth, max_depth) ==
  PyDict([nearest_station |-> PyDict([distance_km |-> PyNum(distance_km)]),
          groundwater_analysis |->
            PyDict([annual_summary |->
                      PyDict([average_depth_mbgl |-> PyNum(average_depth),
                              min_depth_mbgl |-> PyNum(min_depth),
                              max_depth_mbgl |-> PyNum(max_depth)])])])

SoilSignal(suitability_score) ==
  PyDict([suitability_score |-> PyNum(suitability_score)])

\* Inputs in the documented domains: roof areas around the area-score
\* thresholds, dwellers, annual rainfall in every band, monthly amounts,
\* soil scores 0..10 or no soil data, groundwater stations or none.
FeasRoofAreas == {0, 150, 600, 1000, 2500}
FeasDwellers == {0, 4}
FeasRainfalls == {0, 400, 617, 1000, 1500}
FeasMonths == {PyNum(0), PyNum(100), PyNum(400)}
MaxFeasMonths == 2
FeasSoils == {PyNone, SoilSignal(0), SoilSignal(7), SoilSignal(10)}
FeasGroundwaters ==
  {PyNone, GroundwaterSignal(2, 3, 2, 4), GroundwaterSignal(10, 15, 13, 16),
   GroundwaterSignal(20, 20, 10, 30), GroundwaterSignal(50, 40, 38, 39),
   GroundwaterSignal(2, 20, 19, 20)}
FeasRoofTypes == {"concrete", "tile", "metal"}

FeasMonthlySeries == {PyList(xs) : xs \in SeqUpTo(FeasMonths, MaxFeasMonths)}

InitFeasibility ==
  /\ pc = "called"
  /\ args \in [roof_area_sqft : FeasRoofAreas,
               dwellers : FeasDwellers,
               annual_rainfall_mm : FeasRainfalls,
               monthly_rainfall : FeasMonthlySeries,
               soil_data : FeasSoils,
               groundwater_data : FeasGroundwaters,
               roof_type : FeasRoofTypes]
  /\ ret = NoValue
  /\ prev = NoValue

FeasibilityOf(a) ==
  calculate_detailed_feasibility(a.roof_area_sqft, a.dwellers, a.annual_rainfall_mm,
                                 a.monthly_rainfall, a.soil_data, a.groundwater_data,
                                 a.roof_type)

\* The call returns its report, or raises.
FeasibilityCall ==
  /\ pc = "called"
  /\ ret' = FeasibilityOf(args)
  /\ pc' = "returned"
  /\ UNCHANGED <<args, prev>>

NextFeasibility == FeasibilityCall

SpecFeasibility == InitFeasibility /\ [][NextFeasibility]_vars

Score10(report, factor) == report.factor_scores[factor].score10

\* Sum of reported score * weight over the five factors, in 1/1000 point
\* (score in 1/10 point, weight in 1/100).
ReportedWeightedSum(report) ==
  Score10(report, "rainfall_adequacy") * 25
  + Score10(report, "soil_suitability") * 20
  + Score10(report, "groundwater_conditions") * 20
  + Score10(report, "technical_viability") * 20
  + Score10(report, "economic_viability") * 15

\* |total_score - sum(score_i * weight_i) / 100| in 1/1000 point.
TotalDrift(report) ==
  Abs(100 * report.overall_feasibility.total_score10 - ReportedWeightedSum(report))

\* C3: for inputs in the documented domains every factor score and the
\* total score lie in [0, 100].
C3_ScoresWithinRange ==
  (pc = "returned" /\ args.roof_area_sqft > 0) =>
    /\ ~ret.raised
    /\ \A f \in FactorNames : Score10(ret, f) >= 0 /\ Score10(ret, f) <= 1000
    /\ ret.overall_feasibility.total_score10 >= 0
    /\ ret.overall_feasibility.total_score10 <= 1000

\* A report whose rainfall and groundwater scores sit on the upper limit.
C3_Witness ==
  /\ pc = "returned"
  /\ args.roof_area_sqft > 0
  /\ ~ret.raised
  /\ Score10(ret, "rainfall_adequacy") = 1000
  /\ Score10(ret, "groundwater_conditions") = 1000

\* C4 as stated: total_score differs by at most 0.05 from
\* sum(score_i * weight_i) / 100 over the reported scores.
C4_TotalWithinHalfTenth ==
  (pc = "returned" /\ args.roof_area_sqft > 0) => TotalDrift(ret) <= 50

\* The drift beyond 0.05 that C4 as stated leaves out.
C4_DriftBeyondHalfTenth ==
  /\ pc = "returned"
  /\ args.roof_area_sqft > 0
  /\ ~ret.raised
  /\ TotalDrift(ret) > 50

\* C4, amended: total_score differs by at most 0.11 from
\* sum(score_i * weight_i) / 100 over the reported scores (the economic
\* weighted score, the economic score and the total are each rounded to one
\* decimal).
C4_TotalWithinRoundingDrift ==
  (pc = "returned" /\ args.roof_area_sqft > 0) => TotalDrift(ret) <= 110

\* The rating by the bands of a total in 1/10 point.
RatingOfReported(total_score10) ==
  IF total_score10 >= 850 THEN "Excellent"
  ELSE IF total_score10 >= 700 THEN "Good"
  ELSE IF total_score10 >= 550 THEN "Moderate"
  ELSE IF total_score10 >= 400 THEN "Poor"
  ELSE "Unfeasible"

\* C28: the rating of every report is the band of its reported one-decimal
\* total_score (>= 85 Excellent, >= 70 Good, >= 55 Moderate, >= 40 Poor), and
\* system_complexity (>= 80 simple, >= 60 moderate) and
\* monitoring_requirements (>= 70 standard) follow the reported total too.
C28_RatingMatchesReportedTotal ==
  (pc = "returned" /\ ~ret.raised) =>
    LET total_score10 == ret.overall_feasibility.total_score10
    IN  /\ ret.overall_feasibility.rating = RatingOfReported(total_score10)
        /\ ret.implementation_strategy.system_complexity =
             (IF total_score10 >= 800 THEN "simple"
              ELSE IF total_score10 >= 600 THEN "moderate" ELSE "complex")
        /\ ret.implementation_strategy.monitoring_requirements =
             (IF total_score10 >= 700 THEN "standard" ELSE "enhanced")

\* ------------------------- calculate_detailed_feasibility, optional signals
\* Missing and malformed optional signals: None, a wrong container, an empty
\* one, a field of the wrong type; and a well-formed signal of each kind.
MalformedSoils ==
  {PyNone, PyStr, PyList(<<>>), PyDict(EmptyDict),
   PyDict([suitability_score |-> PyNone]),
   PyDict([suitability_score |-> PyStr]),
   PyDict([error |-> PyStr]),
   PyDict([soil_class |-> PyStr]),
   SoilSignal(7)}

MalformedGroundwaters ==
  {PyNone, PyStr, PyList(<<>>), PyDict(EmptyDict),
   PyDict([error |-> PyStr]),
   PyDict([nearest_station |-> PyNone]),
   PyDict([nearest_station |-> PyStr]),
   PyDict([nearest_station |-> PyDict([distance_km |-> PyStr])]),
   PyDict([nearest_station |-> PyDict([distance_km |-> PyNone])]),
   PyDict([nearest_station |-> PyDict([distance_km |-> PyNum(10)]),
           groundwater_analysis |-> PyStr]),
   PyDict([nearest_station |-> PyDict([distance_km |-> PyNum(10)]),
           groundwater_analysis |-> PyDict([annual_summary |-> PyStr])]),
   PyDict([nearest_station |-> PyDict([distance_km |-> PyNum(10)]),
           groundwater_analysis |->
             PyDict([annual_summary |-> PyDict([average_depth_mbgl |-> PyStr])])]),
   GroundwaterSignal(10, 15, 13, 16)}

MalformedMonthlySeries ==
  {PyNone, PyStr, PyDict(EmptyDict), PyList(<<>>),
   PyList(<<PyStr>>),
   PyList(<<PyNone, PyNum(100)>>),
   PyList(<<PyDict(EmptyDict)>>),
   PyList(<<PyDict([monthly_rain_mm |-> PyStr])>>),
   PyList(<<PyDict([monthly_rain_mm |-> PyNum(100)])>>),
   PyList(<<PyNum(100), PyNum(50)>>)}

InitMalformed ==
  /\ pc = "called"
  /\ args \in [roof_area_sqft : {500},
               dwellers : {2},
               annual_rainfall_mm : {0, 800},
               monthly_rainfall : MalformedMonthlySeries,
               soil_data : MalformedSoils,
               groundwater_data : MalformedGroundwaters,
               roof_type : {"concrete"}]
  /\ ret = NoValue
  /\ prev = NoValue

SpecMalformed == InitMalformed /\ [][NextFeasibility]_vars

\* The signal is None, of a wrong container type, or empty.
Absent(v) == v.t # "dict" \/ DOMAIN v.d = {}

\* The soil signal is missing or its suitability_score is not a number.
SoilUnusable(soil_data) ==
  \/ Absent(soil_data)
  \/ /\ "suitability_score" \in DOMAIN soil_data.d
     /\ soil_data.d.suitability_score.t # "num"

\* The groundwater signal is missing, or its nearest_station is not a dict,
\* or its distance_km is not a number.
GroundwaterUnusable(groundwater_data) ==
  \/ Absent(groundwater_data)
  \/ /\ "nearest_station" \in DOMAIN groundwater_data.d
     /\ \/ groundwater_data.d.nearest_station.t # "dict"
        \/ /\ "distance_km" \in DOMAIN groundwater_data.d.nearest_station.d
           /\ groundwater_data.d.nearest_station.d.distance_km.t # "num"

\* The monthly series is not a list or is empty.
MonthlyUnusable(monthly_rainfall) ==
  monthly_rainfall.t # "list" \/ monthly_rainfall.xs = <<>>

\* C5: calculate_detailed_feasibility never raises for a missing or malformed
\* optional signal; the affected sub-scorer returns its default (soil 50,
\* groundwater 60, rainfall band without bonus).
C5_MalformedSignalsGiveDefaults ==
  pc = "returned" =>
    /\ ~ret.raised
    /\ SoilUnusable(args.soil_data) => Score10(ret, "soil_suitability") = 500
    /\ GroundwaterUnusable(args.groundwater_data) =>
         Score10(ret, "groundwater_conditions") = 600
    /\ MonthlyUnusable(args.monthly_rainfall) =>
         Score10(ret, "rainfall_adequacy") = 10 * RainfallBand(args.annual_rainfall_mm)

\* ------------------------------------------------------ create_assessment
\* The monthly-rainfall endpoint lists the months 1..12.
MonthsPerYear == 12

\* A year of monthly entries: wet_mm in the months first_wet..last_wet,
\* dry_mm in the others.
RainfallYear(wet_mm, dry_mm, first_wet, last_wet) ==
  [m \in 1..MonthsPerYear |->
     [monthly_rain_mm |-> IF m >= first_wet /\ m <= last_wet THEN wet_mm ELSE dry_mm]]

RECURSIVE AnnualRainfall(_)
AnnualRainfall(monthly) ==
  IF monthly = <<>> THEN 0
  ELSE Head(monthly).monthly_rain_mm + AnnualRainfall(Tail(monthly))

\* get_rainfall_data, from what the rainfall endpoint answered; without
\* coordinates it is not called and rainfall_data stays None, which
\* create_assessment treats like a failure.
get_rainfall_data(response) ==
  IF response.status = "ok"
  THEN [success |-> TRUE,
        annual_rainfall_mm |-> AnnualRainfall(response.monthly),
        monthly_data |-> response.monthly]
  ELSE [success |-> FALSE]

\* Requests: even roof areas (0 for an unparsable roofArea), a roof type or
\* none, dwellers; answers of the rainfall endpoint and of the soil lookup.
PipelineRoofAreas == {0, 200, 1000, 2500}
PipelineRoofTypes == {"", "concrete", "metal"}
PipelineDwellers == {0, 4}
PipelineRainfall ==
  {[status |-> "no_coordinates"], [status |-> "failed"]}
  \cup {[status |-> "ok", monthly |-> RainfallYear(wet, dry, 6, last)] :
          wet \in {0, 100, 250}, dry \in {0, 10}, last \in {9, 12}}
PipelineSoils ==
  {[success |-> FALSE]}
  \cup {[success |-> TRUE, soil_class |-> c] : c \in {"Sandy", "Clayey", "Unknown"}}

Init ==
  /\ pc = "called"
  /\ args \in [roof_area : PipelineRoofAreas,
               roof_type : PipelineRoofTypes,
               dwellers : PipelineDwellers,
               rainfall : PipelineRainfall,
               soil : PipelineSoils]
  /\ ret = NoValue
  /\ prev = NoValue

\* The request is answered.
CreateAssessment ==
  /\ pc = "called"
  /\ ret' = create_assessment(args.roof_area, args.roof_type, args.dwellers,
                              get_rainfall_data(args.rainfall), args.soil)
  /\ pc' = "returned"
  /\ UNCHANGED <<args, prev>>

Next == CreateAssessment

Spec == Init /\ [][Next]_vars

RECURSIVE MonthlyRunoffSum(_)
MonthlyRunoffSum(monthly_breakdown) ==
  IF monthly_breakdown = <<>> THEN 0
  ELSE Head(monthly_breakdown).runoff_liters + MonthlyRunoffSum(Tail(monthly_breakdown))

\* C6: in every runoff profile the pipeline produces (rainfall unavailable
\* included) net <= gross and the monthly collectible volumes sum to the
\* annual net volume, within half a litre for each rounded figure.
C6_ProfileNetWithinGrossAndMonthlySum ==
  (pc = "returned" /\ ret.runoff_analysis.computed) =>
    LET profile == ret.runoff_analysis.value
    IN  /\ Net(profile) <= profile.runoff_calculations.gross_annual_runoff_liters
        /\ Abs(MonthlyRunoffSum(profile.monthly_breakdown) - Net(profile))
             <= Len(profile.monthly_breakdown) + 1

\* The largest monthly runoff_liters of a runoff profile, 0 without months.
PeakMonthRunoff(profile) ==
  IF profile.monthly_breakdown = <<>> THEN 0
  ELSE MaxSeq([i \in 1..Len(profile.monthly_breakdown) |->
                 profile.monthly_breakdown[i].runoff_liters])

\* C24: in the pipeline the Basic and Standard tanks are sized from demand
\* and the peak-month runoff of the request's runoff profile -- capacity
\* min(45 x daily demand, 1.5 x peak) and min(90 x daily demand, 2.5 x peak),
\* daily demand = dwellers x 135 -- so with dwellers > 0 and peak > 0 every
\* listed Basic or Standard tank has capacity > 0 and cost > 0.
C24_PipelineTanksSizedFromPeakMonth ==
  (/\ pc = "returned"
   /\ ret.structure_recommendations.computed
   /\ args.dwellers > 0
   /\ PeakMonthRunoff(ret.runoff_analysis.value) > 0) =>
    LET peak == PeakMonthRunoff(ret.runoff_analysis.value)
        listed == Listed(ret.structure_recommendations.value)
    IN  \A i \in 1..Len(listed) :
          /\ listed[i].name = "Basic Rainwater Storage Tank" =>
               /\ listed[i].capacity_liters
                    = IntLiters(Min2(450 * args.dwellers * 135, 15 * peak))
               /\ listed[i].capacity_liters > 0
               /\ listed[i].estimated_cost.r > 0
          /\ listed[i].name = "Standard Underground Storage Tank" =>
               /\ listed[i].capacity_liters
                    = IntLiters(Min2(900 * args.dwellers * 135, 25 * peak))
               /\ listed[i].capacity_liters > 0
               /\ listed[i].estimated_cost.r > 0

\* The monthly entries the pipeline holds for a request, as the list of
\* dicts the scorer takes.
PipelineMonthly(rainfall) ==
  IF get_rainfall_data(rainfall).success
  THEN PyList([i \in 1..Len(rainfall.monthly) |->
                 PyDict([monthly_rain_mm |-> PyNum(rainfall.monthly[i].monthly_rain_mm)])])
  ELSE PyList(<<>>)

\* The factors of the scorer that depend on roof, dwellers and rainfall only.
SiteFactors == {"rainfall_adequacy", "technical_viability", "economic_viability"}

\* C25: for a request with roof area > 0 and a roof type, the pipeline's
\* feasibility_assessment is the result of calculate_detailed_feasibility on
\* the request's inputs; here for the factors that do not depend on the soil
\* and groundwater signals.
C25_PipelineFeasibilityIsScored ==
  (pc = "returned" /\ ret.feasibility_assessment.computed) =>
    LET scored == calculate_detailed_feasibility(
                    args.roof_area, args.dwellers, ret.annual_rainfall_used_mm,
                    PipelineMonthly(args.rainfall), PyNone, PyNone, args.roof_type)
    IN  \A f \in SiteFactors :
          ret.feasibility_assessment.value.factor_scores[f] = scored.factor_scores[f]

\* ------------------------------------------------- strategy selection
\* open_space_sqm in 1/1000000 m2, on and next to the 10 and 20 m2
\* thresholds (open_space_sqft * 0.092903 is exactly 10.0 or 20.0 for some
\* floats), and soil_data with each texture class, an unknown one and none.
StrategyOpenSpaces ==
  {0, 5000000, 9999999, 10000000, 10000001, 15000000,
   19999999, 20000000, 20000001, 27870900}
StrategySoils ==
  {EmptyDict, [texture_class |-> "sandy"], [texture_class |-> "loamy"],
   [texture_class |-> "clayey"], [texture_class |-> "medium"],
   [texture_class |-> "peat"]}

InitStrategy ==
  /\ pc = "called"
  /\ args \in [open_space_e6 : StrategyOpenSpaces, soil_data : StrategySoils]
  /\ ret = NoValue
  /\ prev = NoValue

\* The strategy is determined.
SelectStrategy ==
  /\ pc = "called"
  /\ ret' = [soil_permeability |-> SoilPermeability(args.soil_data),
             strategy |-> Strategy(args.open_space_e6, SoilPermeability(args.soil_data))]
  /\ pc' = "returned"
  /\ UNCHANGED <<args, prev>>

NextStrategy == SelectStrategy

SpecStrategy == InitStrategy /\ [][NextStrategy]_vars

\* Infiltration of the texture-class table as the specification states it.
StatedInfiltration(soil_data) ==
  LET texture_class == Get(soil_data, "texture_class", "medium")
  IN  CASE texture_class = "sandy" -> 25
        [] texture_class = "loamy" -> 13
        [] texture_class = "clayey" -> 2
        [] OTHER -> 13

\* C11: recharge_focused iff open space > 20 m2 and infiltration > 10 mm/hr,
\* otherwise hybrid iff open space > 10 m2, otherwise storage_focused; the
\* infiltration is that of the texture class (medium when absent or unknown).
C11_StrategySelection ==
  pc = "returned" =>
    /\ ret.soil_permeability.infiltration = StatedInfiltration(args.soil_data)
    /\ ret.strategy = "recharge_focused" <=>
         (args.open_space_e6 > 20000000 /\ StatedInfiltration(args.soil_data) > 10)
    /\ ret.strategy = "hybrid" <=>
         /\ ~(args.open_space_e6 > 20000000 /\ StatedInfiltration(args.soil_data) > 10)
         /\ args.open_space_e6 > 10000000
    /\ ret.strategy = "storage_focused" <=>
         /\ ~(args.open_space_e6 > 20000000 /\ StatedInfiltration(args.soil_data) > 10)
         /\ ~(args.open_space_e6 > 10000000)

\* Exactly 20 m2 on a soil that infiltrates well stays hybrid.
C11_Witness ==
  /\ pc = "returned"
  /\ args.open_space_e6 = 20000000
  /\ ret.soil_permeability.infiltration > 10
  /\ ret.strategy = "hybrid"

\* ------------------------------------------------- the worked example
\* roof 1000 sq ft (concrete at 1200 mm: 75809 l net), 4 dwellers, no soil
\* signal, 300 sq ft of open space.
WorkedExample ==
  /\ pc = "returned"
  /\ args.roof_area_sqft = 1000
  /\ args.annual_runoff_liters = 75809
  /\ DOMAIN args.soil_data = {}
  /\ args.open_space_sqft = 300
  /\ args.dwellers = 4

\* C12 as stated: the strategy chosen for the worked example is hybrid.
C12_WorkedExampleHybrid ==
  WorkedExample => ret.strategy = "hybrid"

\* C12, amended: the strategy chosen for the worked example is
\* recharge_focused (27.87 m2 of open space > 20, infiltration 13 > 10).
C12_WorkedExampleRechargeFocused ==
  WorkedExample => ret.strategy = "recharge_focused"

\* The worked example has been answered, with its 27.87 m2 of open space.
C12_Witness ==
  /\ WorkedExample
  /\ ret.site_analysis.open_space_sqm_e6 = 27870900
  /\ ret.site_analysis.soil_infiltration_rate = 13

\* ------------------------------------------------ rating and confidence
\* total_weighted_score in 1/100 point: the sum of the reported
\* weighted_score values.
OverallScore100(report) ==
  report.factor_scores.rainfall_adequacy.weighted100
  + report.factor_scores.soil_suitability.weighted100
  + report.factor_scores.groundwater_conditions.weighted100
  + report.factor_scores.technical_viability.weighted100
  + report.factor_scores.economic_viability.weighted100

StatedRating(score100) ==
  IF score100 >= 8500 THEN "Excellent"
  ELSE IF score100 >= 7000 THEN "Good"
  ELSE IF score100 >= 5500 THEN "Moderate"
  ELSE IF score100 >= 4000 THEN "Poor"
  ELSE "Unfeasible"

StatedPriority(rating) ==
  CASE rating = "Excellent" -> "high"
    [] rating = "Good" -> "medium"
    [] rating = "Moderate" -> "medium"
    [] rating = "Poor" -> "low"
    [] rating = "Unfeasible" -> "none"

StatedRecommendation(rating) ==
  CASE rating = "Excellent" -> "Highly recommended for implementation"
    [] rating = "Good" -> "Recommended with standard implementation"
    [] rating = "Moderate" -> "Feasible with optimized design and careful planning"
    [] rating = "Poor" -> "Not recommended unless site conditions improve"
    [] rating = "Unfeasible" -> "Not suitable for rainwater harvesting"

\* C13: the rating follows the overall score with inclusive lower bounds
\* 85 / 70 / 55 / 40, and each rating carries its one recommendation string
\* and its priority label (high, medium, medium, low, none).
C13_RatingBands ==
  (pc = "returned" /\ ~ret.raised) =>
    /\ ret.overall_feasibility.rating = StatedRating(OverallScore100(ret))
    /\ ret.overall_feasibility.priority = StatedPriority(ret.overall_feasibility.rating)
    /\ ret.overall_feasibility.recommendation =
         StatedRecommendation(ret.overall_feasibility.rating)

\* An overall score of exactly 70 rated Good.
C13_Witness ==
  /\ pc = "returned"
  /\ ~ret.raised
  /\ OverallScore100(ret) = 7000
  /\ ret.overall_feasibility.rating = "Good"
  /\ ret.overall_feasibility.priority = "medium"

StatedConfidence(n) == IF n <= 1 THEN "high" ELSE IF n = 2 THEN "medium" ELSE "low"

\* C14: limiting_factors lists exactly the factors whose reported score is
\* below 50, and confidence_level is high for 0 or 1 of them, medium for 2,
\* low for 3 or more.
C14_LimitingFactorsAndConfidence ==
  (pc = "returned" /\ ~ret.raised) =>
    /\ ret.limiting_factors = {f \in FactorNames : Score10(ret, f) < 500}
    /\ ret.overall_feasibility.confidence_level =
         StatedConfidence(Cardinality({f \in FactorNames : Score10(ret, f) < 500}))

\* A report with a factor at exactly 50 that is not limiting, next to two
\* limiting factors.
C14_Witness ==
  /\ pc = "returned"
  /\ ~ret.raised
  /\ \E f \in FactorNames : Score10(ret, f) = 500 /\ f \notin ret.limiting_factors
  /\ Cardinality(ret.limiting_factors) = 2
  /\ ret.overall_feasibility.confidence_level = "medium"

\* ------------------------------------------------ the option generators
InitOptions ==
  /\ pc = "called"
  /\ args \in [roof_area_sqft : RecRoofAreas,
               annual_runoff_liters : RecRunoffs,
               soil_data : RecSoils,
               open_space_sqft : RecOpenSpaces,
               dwellers : RecDwellers,
               monthly_rainfall : SeqUpTo(RecMonths, MaxRecMonths)]
  /\ ret = NoValue
  /\ prev = NoValue

\* calculate_storage_tank_options returns.
StorageOptionsCall ==
  /\ pc = "called"
  /\ ret' = [kind |-> "storage_tank",
             options |-> calculate_storage_tank_options(
                           args.annual_runoff_liters, args.dwellers * 135,
                           args.monthly_rainfall)]
  /\ pc' = "returned"
  /\ UNCHANGED <<args, prev>>

\* calculate_recharge_structure_options returns.
RechargeOptionsCall ==
  /\ pc = "called"
  /\ ret' = [kind |-> "recharge_structure",
             options |-> calculate_recharge_structure_options(
                           args.open_space_sqft * SqftToSqmE6,
                           SoilPermeability(args.soil_data),
                           args.annual_runoff_liters)]
  /\ pc' = "returned"
  /\ UNCHANGED <<args, prev>>

\* calculate_filtration_system_options returns.
FiltrationOptionsCall ==
  /\ pc = "called"
  /\ ret' = [kind |-> "filtration_system",
             options |-> calculate_filtration_system_options(
                           args.roof_area_sqft, args.annual_runoff_liters)]
  /\ pc' = "returned"
  /\ UNCHANGED <<args, prev>>

NextOptions == StorageOptionsCall \/ RechargeOptionsCall \/ FiltrationOptionsCall

SpecOptions == InitOptions /\ [][NextOptions]_vars

\* The components of the cost_breakdown (share * cost) add up to the cost:
\* whole rupees and the fraction separately, both times 100.
BreakdownSumsToCost(option) ==
  LET shares == option.cost_breakdown
      cost == option.estimated_cost
  IN  /\ SumSeq([i \in 1..Len(shares) |-> shares[i] * cost.r]) = 100 * cost.r
      /\ SumSeq([i \in 1..Len(shares) |-> shares[i] * cost.f]) = 100 * cost.f

\* C15: every generated structure option has estimated_cost >= 0 and a
\* cost_breakdown whose components sum to that estimated_cost.  (In exact
\* arithmetic; the float sums of the code are within one unit in the last
\* place of estimated_cost.)
C15_CostBreakdownSumsToCost ==
  pc = "returned" =>
    \A i \in 1..Len(ret.options) :
      /\ ret.options[i].estimated_cost.r >= 0
      /\ ret.options[i].estimated_cost.f >= 0
      /\ BreakdownSumsToCost(ret.options[i])

\* The diverter and the filter, generated at a cost with a fraction.
C15_Witness ==
  /\ pc = "returned"
  /\ ret.kind = "filtration_system"
  /\ Len(ret.options) = 2
  /\ ret.options[1].estimated_cost.f > 0
  /\ ret.options[2].estimated_cost.r > 8000

\* --------------------------------------------------- phase composition
\* The names of the listed structures that satisfy Keep, in bundle order.
ListedNames(bundle, Keep(_)) == Names(SelectSeq(Listed(bundle), Keep))

NonBasicTank(structure) ==
  structure.type = "storage_tank" /\ ~HasBasic(structure.name)

RechargeStructure(structure) == structure.type = "recharge_structure"

\* The phase numbered n is present iff names is not empty, and then holds
\* exactly names.
PhaseHoldsAll(phases, n, names) ==
  /\ (\E i \in 1..Len(phases) : phases[i].phase = n) <=> names # <<>>
  /\ \A i \in 1..Len(phases) : phases[i].phase = n => phases[i].structures = names

\* C16: Phase 1 is present and first; Phase 2 is present iff the bundle
\* (primary or secondary) lists a storage tank that is not Basic, and then
\* holds all such tanks; Phase 3 is present iff the bundle lists a recharge
\* structure, and then holds all of them; phase numbers ascend.
C16_PhaseComposition ==
  pc = "returned" =>
    LET phases == ret.implementation_phases
    IN  /\ Len(phases) >= 1
        /\ phases[1].phase = 1
        /\ PhaseHoldsAll(phases, 2, ListedNames(ret, NonBasicTank))
        /\ PhaseHoldsAll(phases, 3, ListedNames(ret, RechargeStructure))
        /\ \A i, j \in 1..Len(phases) : i < j => phases[i].phase < phases[j].phase

\* ------------------------------------------------ strategy distribution
GeneratedFor(a) ==
  GeneratedOptions(a.roof_area_sqft, a.annual_runoff_liters, a.soil_data,
                   a.open_space_sqft, a.dwellers, a.monthly_rainfall)

NameSet(xs) == {xs[i].name : i \in 1..Len(xs)}

\* C17: storage_focused puts the first 2 storage tanks in primary and all
\* filtration options plus the first recharge option (if any) in secondary;
\* recharge_focused puts the first 2 recharge options plus the first storage
\* tank in primary; hybrid puts one storage and one recharge option in
\* primary and the remainder of the generated options in secondary.
C17_StrategyDistribution ==
  pc = "returned" =>
    LET g == GeneratedFor(args)
        all == g.storage_options \o g.recharge_options \o g.filtration_options
    IN  /\ ret.strategy = "storage_focused" =>
             /\ ret.primary_structures = First(g.storage_options, 2)
             /\ ret.secondary_structures =
                  g.filtration_options \o First(g.recharge_options, 1)
        /\ ret.strategy = "recharge_focused" =>
             ret.primary_structures =
               First(g.recharge_options, 2) \o First(g.storage_options, 1)
        /\ ret.strategy = "hybrid" =>
             /\ ret.primary_structures =
                  First(g.storage_options, 1) \o First(g.recharge_options, 1)
             /\ NameSet(ret.secondary_structures) =
                  NameSet(all) \ NameSet(ret.primary_structures)

\* The inputs of the recommender that InitRecommend draws from.
RecommendInputs ==
  [roof_area_sqft : RecRoofAreas,
   annual_runoff_liters : RecRunoffs,
   soil_data : RecSoils,
   open_space_sqft : RecOpenSpaces,
   dwellers : RecDwellers,
   monthly_rainfall : SeqUpTo(RecMonths, MaxRecMonths)]

BundleFor(a) ==
  get_rtrwh_structure_recommendations(a.roof_area_sqft, a.annual_runoff_liters,
                                      a.soil_data, a.open_space_sqft, a.dwellers,
                                      a.monthly_rainfall)

\* C29: there is an input for which the Premium Multi-Tank System is listed
\* in primary_structures or secondary_structures, and there is an input for
\* which the Recharge Trench System is listed there (among the inputs the
\* recommender is called with).
C29_PremiumAndTrenchListed ==
  pc = "returned" =>
    /\ \E a \in RecommendInputs :
         "Premium Multi-Tank System" \in NameSet(Listed(BundleFor(a)))
    /\ \E a \in RecommendInputs :
         "Recharge Trench System" \in NameSet(Listed(BundleFor(a)))

\* --------------------------------------------------- rainfall adequacy
\* Annual totals on and next to the band limits; monthly entries as plain
\* numbers and as dicts ([100, 300] has cv = 0.5, [100, 900] has cv = 0.8).
RainRainfalls == {0, 399, 400, 599, 600, 999, 1000, 1499, 1500, 2500}
RainMonths ==
  {PyNum(0), PyNum(100), PyNum(900),
   PyDict([monthly_rain_mm |-> PyNum(300)]), PyDict([monthly_rain_mm |-> PyNum(400)])}
MaxRainMonths == 3

InitRainfall ==
  /\ pc = "called"
  /\ args \in [roof_area_sqft : {1000},
               dwellers : {4},
               annual_rainfall_mm : RainRainfalls,
               monthly_rainfall : {PyList(xs) : xs \in SeqUpTo(RainMonths, MaxRainMonths)},
               soil_data : {PyNone},
               groundwater_data : {PyNone},
               roof_type : {"concrete"}]
  /\ ret = NoValue
  /\ prev = NoValue

SpecRainfall == InitRainfall /\ [][NextFeasibility]_vars

\* The monthly values of a series of numbers and monthly_rain_mm dicts.
MonthValues(monthly_rainfall) ==
  [i \in 1..Len(monthly_rainfall.xs) |->
     IF monthly_rainfall.xs[i].t = "num" THEN monthly_rainfall.xs[i].n
     ELSE monthly_rainfall.xs[i].d.monthly_rain_mm.n]

StatedBand(annual) ==
  IF annual >= 1500 THEN 100
  ELSE IF annual >= 1000 THEN 80
  ELSE IF annual >= 600 THEN 60
  ELSE IF annual >= 400 THEN 30
  ELSE 10

\* Bonus by cv = population stddev / mean of the values vs (mean > 0):
\* cv <= c iff n * sum(v^2) <= (1 + c^2) * sum(v)^2.
StatedBonus(vs) ==
  LET n == Len(vs)
      S == SumSeq(vs)
      Q == SumSeq([i \in 1..n |-> vs[i] * vs[i]])
  IN  IF 4 * n * Q <= 5 * S * S THEN 15
      ELSE IF 25 * n * Q <= 41 * S * S THEN 10
      ELSE IF 25 * n * Q <= 61 * S * S THEN 5
      ELSE 0

\* C18: for a non-empty monthly series with positive mean the rainfall score
\* is min(100, band + bonus), band by annual total, bonus by the coefficient
\* of variation of the monthly values.
C18_RainfallScoreFormula ==
  (/\ pc = "returned"
   /\ Len(args.monthly_rainfall.xs) > 0
   /\ SumSeq(MonthValues(args.monthly_rainfall)) > 0) =>
    /\ ~ret.raised
    /\ Score10(ret, "rainfall_adequacy") =
         10 * Min2(100, StatedBand(args.annual_rainfall_mm)
                        + StatedBonus(MonthValues(args.monthly_rainfall)))

\* A series with cv exactly 0.5 earning the top bonus on the 600 mm band.
C18_Witness ==
  /\ pc = "returned"
  /\ args.annual_rainfall_mm = 600
  /\ MonthValues(args.monthly_rainfall) = <<100, 300>>
  /\ Score10(ret, "rainfall_adequacy") = 750

\* C19: when all months are zero the sub-scorer does not divide by zero and
\* gives the bonus of cv <= 0.5 (+15), as for any series of equal months.
C19_ZeroMeanTopBonus ==
  (/\ pc = "returned"
   /\ Len(args.monthly_rainfall.xs) > 0
   /\ \A i \in 1..Len(args.monthly_rainfall.xs) : MonthValues(args.monthly_rainfall)[i] = 0) =>
    /\ ~ret.raised
    /\ Score10(ret, "rainfall_adequacy") =
         10 * Min2(100, StatedBand(args.annual_rainfall_mm) + 15)

\* ----------------------------------------------- groundwater conditions
\* Station distances and depths on and next to the band limits, depth 0
\* included; every signal has min_depth <= average_depth <= max_depth.
GwDistances == {0, 5, 6, 15, 16, 30, 31}
GwDepths == {0, 3, 5, 6, 10, 15, 16, 30, 31, 40}
GwDepthTriples ==
  {t \in GwDepths \X GwDepths \X GwDepths : t[2] <= t[1] /\ t[1] <= t[3]}
GwSignals ==
  {GroundwaterSignal(k, t[1], t[2], t[3]) :
     k \in GwDistances, t \in GwDepthTriples}

InitGroundwater ==
  /\ pc = "called"
  /\ args \in [roof_area_sqft : {1000},
               dwellers : {4},
               annual_rainfall_mm : {600},
               monthly_rainfall : {PyNone},
               soil_data : {PyNone},
               groundwater_data : GwSignals \cup {PyNone},
               roof_type : {"concrete"}]
  /\ ret = NoValue
  /\ prev = NoValue

SpecGroundwater == InitGroundwater /\ [][NextFeasibility]_vars

\* The numbers of a groundwater signal.
SignalDistance(g) == g.d.nearest_station.d.distance_km.n
SignalSummary(g) == g.d.groundwater_analysis.d.annual_summary.d

StatedBase(d) ==
  IF d <= 5 THEN 90 ELSE IF d <= 15 THEN 80 ELSE IF d <= 30 THEN 100 ELSE 70

StatedVariationBonus(v) == IF v <= 2 THEN 10 ELSE IF v <= 5 THEN 5 ELSE 0

\* The distance factor in 1/10.
StatedFactor10(k) ==
  IF k <= 5 THEN 10 ELSE IF k <= 15 THEN 9 ELSE IF k <= 30 THEN 8 ELSE 7

StatedGroundwaterScore10(g) ==
  Min2(100, StatedBase(SignalSummary(g).average_depth_mbgl.n)
            + StatedVariationBonus(SignalSummary(g).max_depth_mbgl.n
                                   - SignalSummary(g).min_depth_mbgl.n))
  * StatedFactor10(SignalDistance(g))

\* C20: for every groundwater signal with average depth d >= 0, depths
\* 0 <= min <= max and station distance k >= 0 the groundwater score is
\* min(100, base(d) + bonus(max - min)) x factor(k); without a signal the
\* score is 60 and station_distance is 'far'.
C20_GroundwaterScoreFormula ==
  pc = "returned" =>
    /\ ~ret.raised
    /\ args.groundwater_data = PyNone =>
         /\ Score10(ret, "groundwater_conditions") = 600
         /\ ret.detailed_analysis.groundwater_analysis.station_distance = "far"
    /\ args.groundwater_data # PyNone =>
         Score10(ret, "groundwater_conditions") =
           StatedGroundwaterScore10(args.groundwater_data)

\* ------------------------------------------------- recharge option gates
\* Open space in 1/1000000 m2 on and next to the limits 1, 4, 5 and 6 m2.
RechargeOpenSpaces ==
  {0, 999999, 1000000, 3999999, 4000000, 5000000, 5000001, 5999999, 6000000,
   27870900}
RechargeRunoffs == {0, 75809}

InitRecharge ==
  /\ pc = "called"
  /\ args \in [open_space_e6 : RechargeOpenSpaces,
               soil_data : StrategySoils,
               annual_runoff_liters : RechargeRunoffs]
  /\ ret = NoValue
  /\ prev = NoValue

\* The recommender generates its recharge options.
GatedRechargeCall ==
  /\ pc = "called"
  /\ ret' = [gated |-> TRUE,
             options |-> GatedRechargeOptions(args.open_space_e6,
                                              SoilPermeability(args.soil_data),
                                              args.annual_runoff_liters)]
  /\ pc' = "returned"
  /\ UNCHANGED <<args, prev>>

\* calculate_recharge_structure_options is called on its own.
UngatedRechargeCall ==
  /\ pc = "called"
  /\ ret' = [gated |-> FALSE,
             options |-> calculate_recharge_structure_options(
                           args.open_space_e6, SoilPermeability(args.soil_data),
                           args.annual_runoff_liters)]
  /\ pc' = "returned"
  /\ UNCHANGED <<args, prev>>

NextRecharge == GatedRechargeCall \/ UngatedRechargeCall

SpecRecharge == InitRecharge /\ [][NextRecharge]_vars

\* The recharge options by the stated limits, in the order pit, well, trench.
StatedRechargeNames(open_space_e6, infiltration) ==
  (IF open_space_e6 >= 4000000 THEN <<"Percolation/Recharge Pit">> ELSE <<>>)
  \o (IF open_space_e6 >= 1000000 /\ infiltration > 5
      THEN <<"Recharge Well/Bore">> ELSE <<>>)
  \o (IF open_space_e6 >= 6000000 THEN <<"Recharge Trench System">> ELSE <<>>)

\* Base cost plus typical size times rate: pit 15000 + 12 x 2500, well
\* 25000 + 12 x 1500, trench 8000 + 15 x 800.
StatedRechargeCost(name) ==
  IF name = "Percolation/Recharge Pit" THEN 45000
  ELSE IF name = "Recharge Well/Bore" THEN 43000
  ELSE 20000

\* C23: the recommender generates no recharge option with open space <= 5 m2;
\* otherwise a pit from 4 m2, a well from 1 m2 on soil with infiltration
\* above 5 mm/hr and a trench from 6 m2, in that order; no well is offered at
\* infiltration <= 5, and every option costs its constant of the table.
C23_RechargeGates ==
  pc = "returned" =>
    /\ Names(ret.options) =
         IF ret.gated /\ args.open_space_e6 <= 5000000 THEN <<>>
         ELSE StatedRechargeNames(args.open_space_e6,
                                  SoilPermeability(args.soil_data).infiltration)
    /\ \A i \in 1..Len(ret.options) :
         /\ ret.options[i].estimated_cost = Money(StatedRechargeCost(ret.options[i].name), 0)
         /\ ret.options[i].name = "Recharge Well/Bore" =>
              SoilPermeability(args.soil_data).infiltration > 5

\* Exactly 5 m2 of open space on sandy soil: the generator alone offers a pit
\* and a well, the recommender nothing.
C23_Witness ==
  /\ pc = "returned"
  /\ args.open_space_e6 = 5000000
  /\ SoilPermeability(args.soil_data).infiltration = 25
  /\ ret.gated
  /\ ret.options = <<>>

\* ------------------------------------------- feasibility and roof area
\* Roof areas on the area-score limits, none and a very small one; annual
\* rainfall up to and beyond the cap of the rainfall factor (2000 mm).
RoofStepAreas == {0, 1, 150, 300, 600, 1000, 2000, 2500}
RoofStepRainfalls == {0, 400, 1000, 1500, 2000, 2500}
RoofStepDwellers == {0, 4}
RoofStepRoofTypes == {"concrete", "metal"}

InitRoofStep ==
  /\ pc = "called"
  /\ args \in [roof_area_sqft : RoofStepAreas,
               dwellers : RoofStepDwellers,
               annual_rainfall_mm : RoofStepRainfalls,
               monthly_rainfall : {PyNone},
               soil_data : {PyNone},
               groundwater_data : {PyNone},
               roof_type : RoofStepRoofTypes]
  /\ ret = NoValue
  /\ prev = NoValue

\* The same site is scored again with a larger roof; the earlier call is
\* kept in prev.
FeasibilityLargerRoof ==
  /\ pc = "returned"
  /\ prev = NoValue
  /\ \E larger \in RoofStepAreas :
       /\ larger > args.roof_area_sqft
       /\ args' = [args EXCEPT !.roof_area_sqft = larger]
       /\ ret' = FeasibilityOf(args')
       /\ prev' = [computed |-> TRUE, args |-> args, ret |-> ret]
  /\ pc' = "compared"

NextRoofStep == FeasibilityCall \/ FeasibilityLargerRoof

SpecRoofStep == InitRoofStep /\ [][NextRoofStep]_vars

\* C26: with all other inputs fixed, the total_score is non-decreasing in
\* the roof area over all roof areas >= 0, the step from 0 to a positive
\* area included.
C26_TotalMonotoneInRoofArea ==
  pc = "compared" =>
    prev.ret.overall_feasibility.total_score10 <= ret.overall_feasibility.total_score10

\* C27: with positive potential collection the payback period is the same
\* (40/365)/0.03 years whatever the roof, rainfall, material or dwellers, so
\* the payback score is 80 (category good) and the economic score is
\* 0.6 x base + 32, reported to 1/10 point; for roof area and rainfall >= 0
\* the economic score is >= 50 and economic viability never limits.
C27_EconomicScoreFromConstantPayback ==
  pc \in {"returned", "compared"} =>
    /\ args.roof_area_sqft * args.annual_rainfall_mm > 0 =>
         /\ ret.detailed_analysis.economic_analysis.payback_category = "good"
         /\ Abs(1000 * Score10(ret, "economic_viability")
                - (6 * EconomicBaseE3(args.roof_area_sqft, args.annual_rainfall_mm)
                   + 320000)) <= 500
    /\ Score10(ret, "economic_viability") >= 500
    /\ "economic_viability" \notin ret.limiting_factors

\* A 1000 sq ft roof at 400 mm: base 73, economic score 0.6 x 73 + 32 = 75.8.
C27_Witness ==
  /\ pc = "returned"
  /\ args.roof_area_sqft = 1000
  /\ args.annual_rainfall_mm = 400
  /\ ret.detailed_analysis.economic_analysis.payback_category = "good"
  /\ Score10(ret, "economic_viability") = 758

\* ------------------------------------------------------ calculate_tank_cost
\* Capacities in 1/10 litre on and just above the discount limits of 5,000 l
\* and 10,000 l, below, between and beyond them; a material and a quality
\* tier outside the tables.
TankCapacities ==
  {0, 10000, 50000, 50010, 55000, 56000, 100000, 100010, 105000, 118000, 200000}
TankMaterials == {"plastic", "concrete", "steel"}
TankQualities == {"basic", "premium", "deluxe"}

InitTankCost ==
  /\ pc = "called"
  /\ args \in [capacity10 : TankCapacities,
               material : TankMaterials,
               quality : TankQualities]
  /\ ret = NoValue
  /\ prev = NoValue

\* The call returns the cost.
TankCostCall ==
  /\ pc = "called"
  /\ ret' = [cost |-> calculate_tank_cost(args.capacity10, args.material, args.quality)]
  /\ pc' = "returned"
  /\ UNCHANGED <<args, prev>>

\* The cost of a larger tank of the same material and tier is asked for; the
\* earlier call is kept in prev.
TankCostLargerCapacity ==
  /\ pc = "returned"
  /\ prev = NoValue
  /\ \E larger \in TankCapacities :
       /\ larger > args.capacity10
       /\ args' = [args EXCEPT !.capacity10 = larger]
       /\ ret' = [cost |-> calculate_tank_cost(larger, args.material, args.quality)]
       /\ prev' = [computed |-> TRUE, args |-> args, ret |-> ret]
  /\ pc' = "compared"

NextTankCost == TankCostCall \/ TankCostLargerCapacity

SpecTankCost == InitTankCost /\ [][NextTankCost]_vars

\* C30: for a fixed material and quality tier calculate_tank_cost is
\* non-decreasing in the capacity, across the 5,000 l and 10,000 l discount
\* limits too.
C30_TankCostMonotoneInCapacity ==
  pc = "compared" => prev.ret.cost <= ret.cost

====
